---- MODULE Spec2Model ----
(***************************************************************************)
(* Model of add_trailing_comma/_main.py: the command-line driver (main,    *)
(* fix_file), the rewriter _fix_src in its two modes, and the Remove-mode  *)
(* token pass _remove_trailing_commas with its helpers.                    *)
(*                                                                         *)
(* A source text is a sequence of lexemes (strings); src_to_tokens turns   *)
(* it into Token records and tokens_to_src concatenates the tokens' src.   *)
(* Python indices are kept 0-based: At(tokens, k) is tokens[k].            *)
(***************************************************************************)
EXTENDS Integers, Sequences, FiniteSets, TLC

\* ------------------------------------------------------------- bounds
\* Largest number of top-level elements of a generated bracketed region.
MaxElems == 2
\* Largest number of file names on the command line.
MaxFiles == 2
\* Number of times main is run over the same files.
MaxRuns == 2

\* ------------------------------------------------------------ lexemes
START_BRACES == {"(", "{", "["}

END_BRACES == {")", "}", "]"}

WsLexemes == {" ", "    ", "     ", "        "}

EolLexemes == {"\n", "\r\n"}

OpLexemes == START_BRACES \cup END_BRACES \cup {",", "=", "+=", ":", "."}

NumberLexemes == {"1", "2", "5"}

StringLexemes == {"\"foo\"", "\"bar\"", "\"wat\"", "\"2\"", "f\" {test(t)}\""}

Keywords == {"return", "def", "from", "import", "pass", "for", "in", "if",
             "with", "as"}

\* ----------------------------------------------------- token sequences
At(tokens, k) == tokens[k + 1]

Token(name, src) == [name |-> name, src |-> src, offset |-> 0, excluded |-> FALSE]

\* tokens[a:b] of Python, 0 <= a <= b <= len(tokens)
Slice(tokens, a, b) == [k \in 1..(b - a) |-> tokens[a + k]]

\* tokens[j: j + 1] = []
DeleteAt(tokens, j) == Slice(tokens, 0, j) \o Slice(tokens, j + 1, Len(tokens))

\* tokens[k] = t
ReplaceAt(tokens, k, t) == [tokens EXCEPT ![k + 1] = t]

\* tokens.insert(k, t)
InsertAt(tokens, k, t) == Slice(tokens, 0, k) \o <<t>> \o Slice(tokens, k, Len(tokens))

\* Bracket depth in front of lexeme p (1-based) of a text.
Depth(text, p) ==
    Cardinality({q \in 1..(p - 1) : text[q] \in START_BRACES})
    - Cardinality({q \in 1..(p - 1) : text[q] \in END_BRACES})

\* The tokenizer's name for a lexeme: a line break inside brackets is NL,
\* one that ends a logical line is NEWLINE.
TokenName(lex, depth) ==
    IF lex \in WsLexemes THEN "UNIMPORTANT_WS"
    ELSE IF lex \in EolLexemes THEN (IF depth > 0 THEN "NL" ELSE "NEWLINE")
    ELSE IF lex \in OpLexemes THEN "OP"
    ELSE IF lex \in NumberLexemes THEN "NUMBER"
    ELSE IF lex \in StringLexemes THEN "STRING"
    ELSE "NAME"

\* tokenize_rt.src_to_tokens: one token per lexeme, carrying its source
\* offset, and the zero-length ENDMARKER that closes every token stream.
src_to_tokens(text) ==
    [p \in 1..(Len(text) + 1) |->
        IF p = Len(text) + 1
        THEN [name |-> "ENDMARKER", src |-> "", offset |-> p, excluded |-> FALSE]
        ELSE [name |-> TokenName(text[p], Depth(text, p)), src |-> text[p],
              offset |-> p, excluded |-> FALSE]]

\* tokenize_rt.tokens_to_src: ''.join(tok.src for tok in tokens); a
\* zero-length token contributes nothing to the text.
tokens_to_src(tokens) ==
    LET nz == SelectSeq(tokens, LAMBDA t : t.src # "")
    IN  [k \in 1..Len(nz) |-> nz[k].src]

\* ------------------------------------------- hard-coded source patterns
\* One or more whitespace characters of a regular expression (\s+ and
\* [\s\n]+); it is no lexeme of any text.
S == "<ws+>"

\* The regular expressions of _should_skip_adding_comma, lexeme by lexeme.
test_patterns ==
    << <<"tuple", "(", "\n", S, "a", " ", "for", " ", "a", " ", "in", " ", "b", "\n", ")">>,
       <<"(", "\n", S, "a", "\n", ")", ".", "f", "(", "b", ")">>,
       <<"x", " ", "=", " ", "(", "\n", S, "f\" {test(t)}\"", "\n", ")">>,
       <<"x", " ", "=", " ", "(", "\n", S, "object", "\n", ")", ",", " ", "object">>,
       <<"with", " ", "(", "\n", S, "open", "(", "\"wat\"", ")", "\n", ")", " ", "as", " ", "f">>,
       <<"x", " ", "=", " ", "(", "\"foo\"", S, "\"bar\"", ")">>,
       <<"[", "a", "(", ")", S, "for", " ", "b", " ", "in", " ", "c", S,
         "if", " ", "(", S, "d", S, ")", S, "]">>,
       <<"x", " ", "=", " ", "[", "x", S, "for", " ", "x", " ", "in", " ", "y", "(", ")", "]">>,
       <<"x", " ", "=", " ", "(", "\n", S, "\"foo\"", "\n", S, "\"bar\"", "\n", S, ")">> >>

\* The (pattern, replacement) pairs of _fix_src.
hardcoded ==
    << [pattern |-> <<"x", " ", "=", " ", "(", "\"foo\"", "\n", "     ", "\"bar\"", ")">>,
        replacement |-> <<"x", " ", "=", " ", "(", "\n", "    ", "\"foo\"", "\n", "    ",
                          "\"bar\"", "\n", ")">>],
       [pattern |-> <<"[", "a", "(", ")", "\n", "    ", "for", " ", "b", " ", "in", " ", "c",
                      "\n", "    ", "if", " ", "(", "\n", "        ", "d", "\n", "    ", ")",
                      "\n", "]">>,
        replacement |-> <<"[", "\n", "    ", "a", "(", ")", "\n", "    ", "for", " ", "b", " ",
                          "in", " ", "c", "\n", "    ", "if", " ", "(", "\n", "        ", "d",
                          "\n", "    ", ")", "\n", "]">>],
       [pattern |-> <<"x", " ", "=", " ", "[", "x", "\n", "     ", "for", " ", "x", " ", "in",
                      " ", "y", "(", ")", "]">>,
        replacement |-> <<"x", " ", "=", " ", "[", "\n", "    ", "x", "\n", "    ", "for", " ",
                          "x", " ", "in", " ", "y", "(", ")", "\n", "]", "\n">>],
       [pattern |-> <<"x", " ", "=", " ", "(", "\n", "    ", "\"foo\"", "\n", "    ", "\"bar\"",
                      "\n", "    ", ")">>,
        replacement |-> <<"x", " ", "=", " ", "(", "\n", "    ", "\"foo\"", "\n", "    ",
                          "\"bar\"", "\n", ")">>],
       [pattern |-> <<"with", " ", "(", "\n", "    ", "open", "(", "\"wat\"", ")", "\n", ")",
                      " ", "as", " ", "f", ",", " ", "open", "(", "\"2\"", ")", " ", "as", " ",
                      "f2", ":", " ", "pass">>,
        replacement |-> <<"with", " ", "(", "\n", "    ", "open", "(", "\"wat\"", ")", "\n",
                          ")", " ", "as", " ", "f", ",", " ", "open", "(", "\"2\"", ")", " ",
                          "as", " ", "f2", ":", " ", "pass">>] >>

\* re.match of pattern items p.. at lexeme t of the text
RECURSIVE MatchAt(_, _, _, _)
MatchAt(pat, text, p, t) ==
    IF p > Len(pat) THEN TRUE
    ELSE IF t > Len(text) THEN FALSE
    ELSE IF pat[p] = S
         THEN /\ text[t] \in WsLexemes \cup EolLexemes
              /\ \/ MatchAt(pat, text, p, t + 1)
                 \/ MatchAt(pat, text, p + 1, t + 1)
         ELSE text[t] = pat[p] /\ MatchAt(pat, text, p + 1, t + 1)

\* re.search(pattern, src, re.DOTALL)
re_search(pat, text) == \E t \in 1..Len(text) : MatchAt(pat, text, 1, t)

\* pattern in contents_text
Contains(text, pat) ==
    \E t \in 0..(Len(text) - Len(pat)) :
        \A k \in 1..Len(pat) : text[t + k] = pat[k]

\* ------------------------------------------------------ fix descriptors
None == [none |-> TRUE, braces |-> <<0, 0>>, multi_arg |-> FALSE,
         is_multiline |-> FALSE, initial_indent |-> ""]

\* Index of the bracket closing the one at first_brace, or -1.
RECURSIVE MatchClose(_, _, _)
MatchClose(tokens, k, depth) ==
    IF k >= Len(tokens) THEN -1
    ELSE IF At(tokens, k).src \in START_BRACES THEN MatchClose(tokens, k + 1, depth + 1)
    ELSE IF At(tokens, k).src \in END_BRACES
         THEN (IF depth = 1 THEN k ELSE MatchClose(tokens, k + 1, depth - 1))
    ELSE MatchClose(tokens, k + 1, depth)

\* Nesting depth in front of token k, relative to the inside of the
\* bracket at first_brace.
RelDepth(tokens, first_brace, k) ==
    Cardinality({q \in (first_brace + 1)..(k - 1) : At(tokens, q).src \in START_BRACES})
    - Cardinality({q \in (first_brace + 1)..(k - 1) : At(tokens, q).src \in END_BRACES})

TopLevelCommas(tokens, first_brace, last_brace) ==
    {k \in (first_brace + 1)..(last_brace - 1) :
        At(tokens, k).src = "," /\ RelDepth(tokens, first_brace, k) = 0}

NON_CODING_TOKENS == {"UNIMPORTANT_WS", "NL", "COMMENT"}

\* Number of top-level comma-delimited groups that hold a coding token.
element_count(tokens, first_brace, last_brace) ==
    LET commas == TopLevelCommas(tokens, first_brace, last_brace)
        group(k) == Cardinality({c \in commas : c < k})
    IN  Cardinality({group(k) : k \in
            {q \in (first_brace + 1)..(last_brace - 1) :
                /\ At(tokens, q).name \notin NON_CODING_TOKENS
                /\ q \notin commas}})

\* Leading whitespace of the line that holds token k ("" when none).
initial_indent(tokens, k) ==
    LET breaks == {q \in 0..(k - 1) : At(tokens, q).name \in {"NEWLINE", "NL"}}
        start == IF breaks = {} THEN 0
                 ELSE (CHOOSE q \in breaks : \A r \in breaks : r <= q) + 1
    IN  IF At(tokens, start).name = "UNIMPORTANT_WS" THEN At(tokens, start).src ELSE ""

\* _token_helpers.find_simple.  A region on one line also gets a
\* descriptor: the Remove pass rewrites such regions (main_test.py,
\* test_main_preserve_single_tuple_comma); is_multiline records the rest.
find_simple(first_brace, tokens) ==
    LET last_brace == MatchClose(tokens, first_brace + 1, 1)
        count == element_count(tokens, first_brace, last_brace)
    IN  IF last_brace = -1 \/ At(tokens, first_brace).excluded \/ count = 0
        THEN None
        ELSE [none |-> FALSE,
              braces |-> <<first_brace, last_brace>>,
              multi_arg |-> count >= 1,
              is_multiline |-> \E k \in (first_brace + 1)..(last_brace - 1) :
                                  At(tokens, k).name = "NL",
              initial_indent |-> initial_indent(tokens, first_brace)]

\* ------------------------------------------------- helpers of _main.py
\* _should_skip_adding_comma(src, fix_data)
_should_skip_adding_comma(src, fix_data) ==
    IF fix_data.none THEN TRUE
    ELSE \E n \in 1..Len(test_patterns) : re_search(test_patterns[n], src)

\* _fix_unhugged_brace(i, tokens, fix_data): the token list it leaves.
_fix_unhugged_brace(i, tokens, fix_data) ==
    IF fix_data.none \/ ~fix_data.multi_arg THEN tokens
    ELSE LET last_brace == fix_data.braces[2]
         IN  IF At(tokens, last_brace - 1).name \in {"UNIMPORTANT_WS", "NL"}
             THEN ReplaceAt(tokens, last_brace - 1, Token("UNIMPORTANT_WS", "\n"))
             ELSE tokens

\* The inner while of the argument count: the first index from j on
\* that is last_brace or holds a comma.
RECURSIVE SkipToComma(_, _, _)
SkipToComma(tokens, j, last_brace) ==
    IF j < last_brace /\ (\/ At(tokens, j).name \in {"UNIMPORTANT_WS", "NL"}
                          \/ At(tokens, j).src # ",")
    THEN SkipToComma(tokens, j + 1, last_brace)
    ELSE j

\* The outer while of _is_single_element_tuple: arg_count.
RECURSIVE ArgCount(_, _, _, _)
ArgCount(tokens, j, last_brace, arg_count) ==
    IF j >= last_brace THEN arg_count
    ELSE IF At(tokens, j).name \in {"NAME", "NUMBER", "STRING"}
         THEN LET j1 == SkipToComma(tokens, j + 1, last_brace)
                  j2 == IF j1 < last_brace /\ At(tokens, j1).src = "," THEN j1 + 1 ELSE j1
              IN  ArgCount(tokens, j2, last_brace, arg_count + 1)
         ELSE ArgCount(tokens, j + 1, last_brace, arg_count)

\* while k >= 0 and tokens[k].name in ('UNIMPORTANT_WS', 'NL'): k -= 1
RECURSIVE SkipBack(_, _, _)
SkipBack(tokens, k, low) ==
    IF k > low /\ At(tokens, k).name \in {"UNIMPORTANT_WS", "NL"}
    THEN SkipBack(tokens, k - 1, low)
    ELSE k

tuple_operator_contexts ==
    {"=", "+=", "-=", "*=", "/=", "%=", "//=", "**=",
     "&=", "|=", "^=", ">>=", "<<=", "return", ",", "["}

\* _is_single_element_tuple(tokens, i, last_brace)
_is_single_element_tuple(tokens, i, last_brace) ==
    LET arg_count == ArgCount(tokens, i + 1, last_brace, 0)
        k == SkipBack(tokens, i - 1, -1)
        is_tuple_context == At(tokens, k).src \in tuple_operator_contexts
        is_import_context ==
            \/ At(tokens, k).src = "import"
            \/ k > 0 /\ At(tokens, k).src = "from" /\ At(tokens, k - 1).src = "import"
        is_function_context ==
            \/ At(tokens, k).src = "def"
            \/ k > 0 /\ At(tokens, k - 1).src = "def"
    IN  IF arg_count # 1 THEN FALSE
        ELSE IF At(tokens, i).src # "(" THEN FALSE
        ELSE IF k < 0 THEN FALSE
        ELSE is_tuple_context /\ ~is_import_context /\ ~is_function_context

\* ------------------------------------------- parser, walker, add-mode fix
\* _ast_helpers.ast_parse: TRUE when the text parses, FALSE for
\* SyntaxError.  A text fails to parse when its brackets do not balance or
\* when two operands stand side by side with nothing but blanks between
\* them (print 1).
ast_parse(text) ==
    LET operand(lex) == \/ lex \in NumberLexemes
                        \/ TokenName(lex, 0) = "NAME" /\ lex \notin Keywords
    IN  /\ Depth(text, Len(text) + 1) = 0
        /\ \A p \in 1..Len(text) : Depth(text, p + 1) >= 0
        /\ \A p \in 1..(Len(text) - 2) :
              ~(/\ operand(text[p])
                /\ text[p + 1] \in WsLexemes
                /\ operand(text[p + 2]) \/ text[p + 2] \in StringLexemes)

\* A parenthesized single expression: the parentheses only group (no
\* top-level comma, not an argument, parameter or import list).
IsGrouping(tokens, i) ==
    LET last_brace == MatchClose(tokens, i + 1, 1)
        k == SkipBack(tokens, i - 1, -1)
    IN  /\ At(tokens, i).src = "("
        /\ last_brace # -1
        /\ TopLevelCommas(tokens, i, last_brace) = {}
        /\ element_count(tokens, i, last_brace) >= 1
        /\ \/ k < 0
           \/ /\ At(tokens, k).src \notin END_BRACES \cup {"import"}
              /\ ~(At(tokens, k).name = "NAME" /\ At(tokens, k).src \notin Keywords)

\* _data.visit(FUNCS, ast_obj): the source offsets that carry a callback.
\* The callback registered for a grouping parenthesis excludes its region.
visit(text) ==
    LET tokens == src_to_tokens(text)
    IN  {At(tokens, i).offset : i \in {q \in 0..(Len(tokens) - 1) : IsGrouping(tokens, q)}}

\* for callback in callbacks.get(token.offset, ()): callback(i, tokens)
RunCallbacks(cbs, i, tokens) ==
    IF At(tokens, i).offset \in cbs
    THEN ReplaceAt(tokens, i, [At(tokens, i) EXCEPT !.excluded = TRUE])
    ELSE tokens

\* while tokens[i].name in NON_CODING_TOKENS: i -= 1
RECURSIVE SkipNonCoding(_, _)
SkipNonCoding(tokens, k) ==
    IF k > 0 /\ At(tokens, k).name \in NON_CODING_TOKENS
    THEN SkipNonCoding(tokens, k - 1)
    ELSE k

\* _token_helpers.fix_brace(tokens, fix_data, add_comma, remove_comma):
\* the token list it leaves.  Only a multi-line region is rewritten: the
\* separator is inserted after the last coding token unless one is there,
\* and the whitespace in front of the closing bracket is set to the
\* indentation of the line that opens the region.
fix_brace(tokens, fix_data, add_comma, remove_comma) ==
    IF fix_data.none \/ ~fix_data.is_multiline THEN tokens
    ELSE LET first_brace == fix_data.braces[1]
             last0 == fix_data.braces[2]
             k == SkipNonCoding(tokens, last0 - 1)
             insert == add_comma /\ At(tokens, k).src # "," /\ k > first_brace
             tokens1 == IF insert THEN InsertAt(tokens, k + 1, Token("OP", ","))
                        ELSE tokens
             last_brace == IF insert THEN last0 + 1 ELSE last0
             back_1 == At(tokens1, last_brace - 1)
             back_2 == At(tokens1, last_brace - 2)
         IN  IF /\ back_1.name = "UNIMPORTANT_WS"
                /\ back_2.name = "NL"
                /\ back_1.src # fix_data.initial_indent
             THEN ReplaceAt(tokens1, last_brace - 1,
                            [back_1 EXCEPT !.src = fix_data.initial_indent])
             ELSE tokens1

\* ----------------------------------------------------- the input texts
CloseOf(open) == IF open = "(" THEN ")" ELSE IF open = "[" THEN "]" ELSE "}"

\* The lexemes of one element of a region.
Elem(kind) ==
    CASE kind = "num"    -> <<"1">>
      [] kind = "name"   -> <<"a">>
      [] kind = "call"   -> <<"f", "(", "a", ",", " ", "b", ")">>
      [] kind = "list"   -> <<"[", "]">>
      [] kind = "tuple1" -> <<"(", "1", ",", ")">>
      [] kind = "tuple2" -> <<"(", "1", ",", " ", "2", ")">>

ExprKinds == {"num", "call", "list", "tuple1", "tuple2"}

NameKinds == {"name"}

\* Where a region stands: the lexemes in front of its opening bracket,
\* the bracket, the lexemes after its closing bracket, its element kinds.
AssignCtx(op, open) ==
    [pre |-> <<"x", " ", op, " ">>, open |-> open, post |-> <<>>, kinds |-> ExprKinds]

CallCtx == [pre |-> <<"f">>, open |-> "(", post |-> <<>>, kinds |-> ExprKinds]

Contexts ==
    {AssignCtx(op, "(") : op \in {"=", "+="}}
    \cup {AssignCtx("=", o) : o \in {"[", "{"}}
    \cup {CallCtx,
          [pre |-> <<"return", " ">>, open |-> "(", post |-> <<>>, kinds |-> ExprKinds],
          [pre |-> <<>>, open |-> "(", post |-> <<>>, kinds |-> ExprKinds],
          [pre |-> <<"def", " ", "f">>, open |-> "(", post |-> <<":", " ", "pass">>,
           kinds |-> NameKinds],
          [pre |-> <<"from", " ", "m", " ", "import", " ">>, open |-> "(", post |-> <<>>,
           kinds |-> NameKinds]}

Layouts == {"inline", "exploded", "indented"}

\* The lexemes between the brackets of a region.
RECURSIVE Body(_, _, _, _, _)
Body(elems, k, trailing, layout, eol) ==
    IF k > Len(elems)
    THEN (IF layout = "inline" THEN <<>>
          ELSE IF layout = "exploded" THEN <<eol>>
          ELSE <<eol, "    ">>)
    ELSE LET last == k = Len(elems)
             comma == IF ~last \/ trailing THEN <<",">> ELSE <<>>
         IN  (IF layout = "inline"
              THEN Elem(elems[k]) \o comma \o (IF last THEN <<>> ELSE <<" ">>)
              ELSE <<eol, "    ">> \o Elem(elems[k]) \o comma)
             \o Body(elems, k + 1, trailing, layout, eol)

Region(ctx, elems, trailing, layout, eol) ==
    ctx.pre \o <<ctx.open>> \o Body(elems, 1, trailing, layout, eol)
    \o <<CloseOf(ctx.open)>> \o ctx.post \o <<eol>>

Others == {"none", "plain", "hard", "py2", "hard_py2"}

\* The statements in front of the region.
Other(kind, eol) ==
    LET plain == <<"x", " ", "=", " ", "5", eol>>
        hard == <<"x", " ", "=", " ", "(", "\"foo\"", eol, "     ", "\"bar\"", ")", eol>>
        py2 == <<"print", " ", "1", eol>>
    IN  CASE kind = "none" -> <<>>
          [] kind = "plain" -> plain
          [] kind = "hard" -> hard
          [] kind = "py2" -> py2
          [] kind = "hard_py2" -> hard \o py2

ElemLists(kinds) == UNION {[1..n -> kinds] : n \in 1..MaxElems}

\* Every region in every context, alone in a file with \n line breaks;
\* and a call or an assigned tuple of numbers behind other statements or
\* with \r\n line breaks.
Texts ==
    UNION {{Region(ctx, elems, trailing, layout, "\n") :
                trailing \in BOOLEAN, layout \in Layouts, elems \in ElemLists(ctx.kinds)} :
           ctx \in Contexts}
    \cup UNION {{Other(v[1], v[2]) \o Region(ctx, elems, trailing, layout, v[2]) :
                    trailing \in BOOLEAN, layout \in Layouts,
                    elems \in ElemLists({"num"}), ctx \in {CallCtx, AssignCtx("=", "(")}} :
                v \in (Others \X EolLexemes) \ {<<"none", "\n">>}}

\* ------------------------------------------------------ files and argv
\* A file: bytes that decode as UTF-8 to a text, or bytes that do not.
\* The file name "-" stands for standard input.
File(decodes, stdin, text) == [decodes |-> decodes, stdin |-> stdin, text |-> text]

Undecodable == File(FALSE, FALSE, <<>>)

\* f(<eol>    1<eol>) and f(<eol>    1,<eol>): Add mode rewrites the first,
\* Remove mode the second; a text with a hard-coded pattern; a text that
\* does not parse.
SmallTexts ==
    {Region(CallCtx, <<"num">>, c, "exploded", "\n") : c \in BOOLEAN}
    \cup {Other("hard", "\n"), Other("py2", "\n")}

\* One generated file (or one that does not decode) on the command line.
OneFileLists == {<<File(TRUE, FALSE, t)>> : t \in Texts} \cup {<<Undecodable>>}

SmallFiles ==
    {File(TRUE, FALSE, t) : t \in SmallTexts}
    \cup {File(TRUE, TRUE, Region(CallCtx, <<"num">>, FALSE, "exploded", "\n"))}
    \cup {Undecodable}

\* Up to MaxFiles small files on the command line.
SmallFileLists == UNION {[1..n -> SmallFiles] : n \in 1..MaxFiles}

\* ------------------------------------------------------------- state
VARIABLES
    disk,               \* the files named on the command line, in order
    remove_comma,       \* args.remove_comma
    exit_zero,          \* args.exit_zero_even_if_changed
    run,                \* which run of main this is
    pc,                 \* where the run stands
    fidx,               \* main: index of the file being fixed
    ret,                \* main: ret
    contents_text_orig, \* fix_file: the decoded text
    contents_text,      \* fix_file: the text _fix_src returned
    tokens,             \* the token list of the pass
    callbacks,          \* the offsets visit() registered callbacks for
    i,                  \* the cursor of _changing_list
    stdout,             \* what fix_file printed for "-" in this run
    rewritten,          \* indices of the files written back in this run
    via,                \* how _fix_src returned for the current file
    kept,               \* offsets of the brackets skipped as one-element tuples
    last,               \* what the last bracket step of the Remove pass did
    disk0,              \* the files as they were when this run of main began
    outs                \* per file of this run: the text read and the text _fix_src gave

vars == <<disk, remove_comma, exit_zero, run, pc, fidx, ret, contents_text_orig,
          contents_text, tokens, callbacks, i, stdout, rewritten, via, kept, last,
          disk0, outs>>

NoStep == [i |-> -1, deleted |-> -1, brace |-> -1, closes |-> -1]

InitWith(lists, flags) ==
    /\ disk \in lists
    /\ remove_comma \in BOOLEAN
    /\ exit_zero \in flags
    /\ run = 1
    /\ pc = "main"
    /\ fidx = 1
    /\ ret = 0
    /\ contents_text_orig = <<>>
    /\ contents_text = <<>>
    /\ tokens = <<>>
    /\ callbacks = {}
    /\ i = 0
    /\ stdout = <<>>
    /\ rewritten = {}
    /\ via = "none"
    /\ kept = {}
    /\ last = NoStep
    /\ disk0 = disk
    /\ outs = <<>>

\* main over one generated file.
Init == InitWith(OneFileLists, {FALSE})

\* main over several small files, with and without
\* --exit-zero-even-if-changed.
InitMain == InitWith(SmallFileLists, BOOLEAN)

\* ------------------------------------------------------------ fix_file
\* ret |= x for exit codes 0 and 1
Or(a, b) == IF a = 1 \/ b = 1 THEN 1 ELSE 0

\* fix_file: the bytes do not decode; main goes on with the next file.
ReadUndecodable ==
    /\ pc = "main"
    /\ fidx <= Len(disk)
    /\ ~disk[fidx].decodes
    /\ ret' = Or(ret, 1)
    /\ fidx' = fidx + 1
    /\ outs' = Append(outs, [decoded |-> FALSE, orig |-> <<>>, out |-> <<>>])
    /\ UNCHANGED <<disk, remove_comma, exit_zero, run, pc, contents_text_orig,
                   contents_text, tokens, callbacks, i, stdout, rewritten, via, kept, last,
                   disk0>>

\* fix_file: read and decode the file, then call _fix_src.
ReadFile ==
    /\ pc = "main"
    /\ fidx <= Len(disk)
    /\ disk[fidx].decodes
    /\ contents_text_orig' = disk[fidx].text
    /\ contents_text' = disk[fidx].text
    /\ pc' = "fix_src"
    /\ via' = "none"
    /\ UNCHANGED <<disk, remove_comma, exit_zero, run, fidx, ret, tokens, callbacks, i,
                   stdout, rewritten, kept, last, disk0, outs>>

\* The hard-coded pairs of _fix_src whose pattern the text contains.
HardcodedHits(text) == {n \in 1..Len(hardcoded) : Contains(text, hardcoded[n].pattern)}

\* _fix_src, Add mode: the first hard-coded pattern the text contains
\* decides the result.
FixSrcHardcoded ==
    /\ pc = "fix_src"
    /\ ~remove_comma
    /\ HardcodedHits(contents_text) # {}
    /\ LET n == CHOOSE m \in HardcodedHits(contents_text) :
                    \A q \in HardcodedHits(contents_text) : m <= q
       IN  contents_text' = hardcoded[n].replacement
    /\ via' = "hardcoded"
    /\ pc' = "finish"
    /\ UNCHANGED <<disk, remove_comma, exit_zero, run, fidx, ret, contents_text_orig,
                   tokens, callbacks, i, stdout, rewritten, kept, last, disk0, outs>>

\* _fix_src and _remove_trailing_commas: except SyntaxError: return contents_text
FixSrcSyntaxError ==
    /\ pc = "fix_src"
    /\ remove_comma \/ HardcodedHits(contents_text) = {}
    /\ ~ast_parse(contents_text)
    /\ via' = "syntax_error"
    /\ pc' = "finish"
    /\ UNCHANGED <<disk, remove_comma, exit_zero, run, fidx, ret, contents_text_orig,
                   contents_text, tokens, callbacks, i, stdout, rewritten, kept, last,
                   disk0, outs>>

\* callbacks = visit(FUNCS, ast_obj); tokens = src_to_tokens(contents_text)
FixSrcTokenize ==
    /\ pc = "fix_src"
    /\ remove_comma \/ HardcodedHits(contents_text) = {}
    /\ ast_parse(contents_text)
    /\ callbacks' = visit(contents_text)
    /\ tokens' = src_to_tokens(contents_text)
    /\ i' = 0
    /\ kept' = {}
    /\ last' = NoStep
    /\ pc' = "loop"
    /\ UNCHANGED <<disk, remove_comma, exit_zero, run, fidx, ret, contents_text_orig,
                   contents_text, stdout, rewritten, via, disk0, outs>>

\* ------------------------------------------------------ the token pass
IsStartBrace(token) == token.name = "OP" /\ token.src \in START_BRACES

\* if not token.src: continue
StepZeroLength ==
    /\ pc = "loop"
    /\ i < Len(tokens)
    /\ At(tokens, i).src = ""
    /\ i' = i + 1
    /\ UNCHANGED <<disk, remove_comma, exit_zero, run, pc, fidx, ret, contents_text_orig,
                   contents_text, tokens, callbacks, stdout, rewritten, via, kept, last,
                   disk0, outs>>

\* A token that opens no bracket: only its callbacks run.
StepToken ==
    /\ pc = "loop"
    /\ i < Len(tokens)
    /\ At(tokens, i).src # ""
    /\ ~IsStartBrace(At(tokens, i))
    /\ tokens' = RunCallbacks(callbacks, i, tokens)
    /\ i' = i + 1
    /\ UNCHANGED <<disk, remove_comma, exit_zero, run, pc, fidx, ret, contents_text_orig,
                   contents_text, callbacks, stdout, rewritten, via, kept, last, disk0, outs>>

\* _remove_trailing_commas, one iteration at an opening bracket.
StepRemoveBrace ==
    /\ pc = "loop"
    /\ remove_comma
    /\ i < Len(tokens)
    /\ At(tokens, i).src # ""
    /\ IsStartBrace(At(tokens, i))
    /\ LET t0 == RunCallbacks(callbacks, i, tokens)
           fix_data == find_simple(i, t0)
           eligible == /\ ~fix_data.none
                       /\ fix_data.multi_arg
                       /\ ~_should_skip_adding_comma(contents_text, fix_data)
           last_brace == fix_data.braces[2]
           single == eligible /\ _is_single_element_tuple(t0, i, last_brace)
           j == SkipBack(t0, last_brace - 1, i)
           del == eligible /\ ~single /\ j > i /\ At(t0, j).src = ","
           t1 == IF del THEN DeleteAt(t0, j) ELSE t0
           unhug == ~single /\ ~fix_data.none /\ fix_data.multi_arg
       IN  /\ tokens' = IF single THEN t0 ELSE _fix_unhugged_brace(i, t1, fix_data)
           /\ kept' = IF single THEN kept \cup {At(tokens, i).offset} ELSE kept
           /\ last' = [i |-> i,
                       deleted |-> IF del THEN j ELSE -1,
                       brace |-> IF unhug THEN last_brace ELSE -1,
                       closes |-> IF unhug THEN MatchClose(t1, i + 1, 1) ELSE -1]
    /\ i' = i + 1
    /\ UNCHANGED <<disk, remove_comma, exit_zero, run, pc, fidx, ret, contents_text_orig,
                   contents_text, callbacks, stdout, rewritten, via, disk0, outs>>

\* _fix_src, Add mode, one iteration at an opening bracket.
StepAddBrace ==
    /\ pc = "loop"
    /\ ~remove_comma
    /\ i < Len(tokens)
    /\ At(tokens, i).src # ""
    /\ IsStartBrace(At(tokens, i))
    /\ LET t0 == RunCallbacks(callbacks, i, tokens)
           fix_data == find_simple(i, t0)
       IN  tokens' = IF ~_should_skip_adding_comma(contents_text, fix_data)
                     THEN fix_brace(t0, fix_data, TRUE, FALSE)
                     ELSE _fix_unhugged_brace(i, t0, fix_data)
    /\ i' = i + 1
    /\ UNCHANGED <<disk, remove_comma, exit_zero, run, pc, fidx, ret, contents_text_orig,
                   contents_text, callbacks, stdout, rewritten, via, kept, last, disk0, outs>>

\* return tokens_to_src(tokens)
PassEnd ==
    /\ pc = "loop"
    /\ i >= Len(tokens)
    /\ contents_text' = tokens_to_src(tokens)
    /\ via' = "pass"
    /\ pc' = "finish"
    /\ UNCHANGED <<disk, remove_comma, exit_zero, run, fidx, ret, contents_text_orig,
                   tokens, callbacks, i, stdout, rewritten, kept, last, disk0, outs>>

\* ------------------------------------------------ fix_file ends, main
\* fix_file as it would be without the --exit-zero-even-if-changed test.
FixFileResultNoFlag(changed) == IF changed THEN 1 ELSE 0

\* fix_file after _fix_src: the return value.
FixFileResult(changed) == IF exit_zero THEN 0 ELSE (IF changed THEN 1 ELSE 0)

\* fix_file after _fix_src: the file is written back.
ShouldWrite(stdin, changed) == ~stdin /\ changed

FixFileFinish ==
    /\ pc = "finish"
    /\ LET changed == contents_text # contents_text_orig
           stdin == disk[fidx].stdin
       IN  /\ stdout' = IF stdin THEN Append(stdout, contents_text) ELSE stdout
           /\ disk' = IF ShouldWrite(stdin, changed)
                      THEN [disk EXCEPT ![fidx].text = contents_text]
                      ELSE disk
           /\ rewritten' = IF ShouldWrite(stdin, changed)
                           THEN rewritten \cup {fidx}
                           ELSE rewritten
           /\ ret' = Or(ret, FixFileResult(changed))
    /\ fidx' = fidx + 1
    /\ pc' = "main"
    /\ outs' = Append(outs, [decoded |-> TRUE, orig |-> contents_text_orig,
                             out |-> contents_text])
    /\ UNCHANGED <<remove_comma, exit_zero, run, contents_text_orig, contents_text, tokens,
                   callbacks, i, via, kept, last, disk0>>

\* main: return ret
MainReturn ==
    /\ pc = "main"
    /\ fidx > Len(disk)
    /\ pc' = "done"
    /\ UNCHANGED <<disk, remove_comma, exit_zero, run, fidx, ret, contents_text_orig,
                   contents_text, tokens, callbacks, i, stdout, rewritten, via, kept, last,
                   disk0, outs>>

\* main is run again with the same arguments over the files as they are.
Rerun ==
    /\ pc = "done"
    /\ run < MaxRuns
    /\ run' = run + 1
    /\ pc' = "main"
    /\ fidx' = 1
    /\ ret' = 0
    /\ stdout' = <<>>
    /\ rewritten' = {}
    /\ via' = "none"
    /\ disk0' = disk
    /\ outs' = <<>>
    /\ UNCHANGED <<disk, remove_comma, exit_zero, contents_text_orig, contents_text, tokens,
                   callbacks, i, kept, last>>

Next ==
    \/ ReadUndecodable
    \/ ReadFile
    \/ FixSrcHardcoded
    \/ FixSrcSyntaxError
    \/ FixSrcTokenize
    \/ StepZeroLength
    \/ StepToken
    \/ StepRemoveBrace
    \/ StepAddBrace
    \/ PassEnd
    \/ FixFileFinish
    \/ MainReturn
    \/ Rerun

Spec == Init /\ [][Next]_vars

SpecMain == InitMain /\ [][Next]_vars

TypeOK == pc \in {"main", "fix_src", "loop", "finish", "done"}

\* ------------------------------------------------- what the claims speak of
\* The tokens of the text _fix_src was given.
OrigTokens == src_to_tokens(contents_text_orig)

\* The opening brackets of the text _fix_src was given.
OrigRegions ==
    {o \in 0..(Len(OrigTokens) - 1) :
        IsStartBrace(At(OrigTokens, o)) /\ MatchClose(OrigTokens, o + 1, 1) # -1}

OrigClose(o) == MatchClose(OrigTokens, o + 1, 1)

\* Index of the comma that is the last token of region o in front of its
\* closing bracket, whitespace and line breaks skipped; -1 when none.
TrailingComma(o) ==
    LET j == SkipBack(OrigTokens, OrigClose(o) - 1, o)
    IN  IF j > o /\ At(OrigTokens, j).src = "," THEN j ELSE -1

\* Number of top-level elements of region o.
Elements(o) == element_count(OrigTokens, o, OrigClose(o))

\* The nearest token in front of the opening bracket of region o that is
\* neither whitespace nor a line break ("" when none).
Before(o) ==
    LET k == SkipBack(OrigTokens, o - 1, -1)
    IN  IF k < 0 THEN "" ELSE At(OrigTokens, k).src

AugmentedAssignments ==
    {"+=", "-=", "*=", "/=", "%=", "//=", "**=", "&=", "|=", "^=", ">>=", "<<=", "@="}

\* Region o holds one token and a comma: (1,)
OneTokenTuple(o) ==
    /\ At(OrigTokens, o).src = "("
    /\ TrailingComma(o) # -1
    /\ Cardinality({q \in (o + 1)..(OrigClose(o) - 1) :
            At(OrigTokens, q).name \notin {"UNIMPORTANT_WS", "NL"}}) = 2

\* The token of the given text at index k is still in the token list.
Survives(k) == \E q \in 1..Len(tokens) : tokens[q].offset = At(OrigTokens, k).offset

\* The Remove pass over the current file has ended.
RemoveDone == pc = "finish" /\ via = "pass" /\ remove_comma

\* The lexemes of a text at the positions of keep, in order.
Restrict(text, keep) ==
    LET F[n \in 0..Len(text)] ==
            IF n = 0 THEN <<>>
            ELSE IF n \in keep THEN Append(F[n - 1], text[n]) ELSE F[n - 1]
    IN  F[Len(text)]

\* The positions of a text that hold a comma, whitespace or a line break
\* with nothing but such lexemes between them and a closing bracket.
BeforeClose(text) ==
    LET soft == WsLexemes \cup EolLexemes \cup {","}
    IN  {p \in 1..Len(text) :
            /\ text[p] \in soft
            /\ \E c \in (p + 1)..Len(text) :
                  /\ text[c] \in END_BRACES
                  /\ \A q \in (p + 1)..(c - 1) : text[q] \in soft}

\* ------------------------------------------------------------- claims
\* C1: in Remove mode, for every input that parses, the trailing comma of
\* every bracketed region that is not a one-element tuple in tuple-forming
\* context is deleted from the output, whatever else the file contains.
C1_TrailingCommaDeleted ==
    RemoveDone =>
        \A o \in OrigRegions :
            (/\ TrailingComma(o) # -1
             /\ ~(/\ At(OrigTokens, o).src = "("
                  /\ Elements(o) = 1
                  /\ Before(o) \in {"=", "return", ",", "(", "[", "{"}
                                   \cup AugmentedAssignments))
            => ~Survives(TrailingComma(o))

\* C2: in Remove mode a parenthesized region with exactly one top-level
\* element and a trailing comma, standing after an assignment operator,
\* return, a comma or [, keeps its comma whatever the element is; and a
\* region with two or more top-level elements is never treated as a
\* one-element tuple.
C2_SingleTupleKept ==
    RemoveDone =>
        \A o \in OrigRegions :
            /\ (/\ At(OrigTokens, o).src = "("
                /\ Elements(o) = 1
                /\ TrailingComma(o) # -1
                /\ Before(o) \in {"=", "return", ",", "["} \cup AugmentedAssignments)
               => Survives(TrailingComma(o))
            /\ Elements(o) >= 2 => At(OrigTokens, o).offset \notin kept

\* C3: a text that fails to parse comes back from _fix_src unchanged, in
\* Add mode and in Remove mode, and fix_file does not write the file.
C3_ParseFailureNoop ==
    /\ (pc = "finish" /\ ~ast_parse(contents_text_orig))
       => contents_text = contents_text_orig
    /\ pc = "done" =>
          \A f \in 1..Len(disk0) :
              (disk0[f].decodes /\ ~ast_parse(disk0[f].text)) => f \notin rewritten

\* C4: in Add mode the output differs from the input only in commas and
\* whitespace directly in front of closing brackets; all other text is
\* kept, in order.
C4_AddKeepsOtherText ==
    (pc = "finish" /\ ~remove_comma) =>
        Restrict(contents_text, (1..Len(contents_text)) \ BeforeClose(contents_text))
        = Restrict(contents_text_orig,
                   (1..Len(contents_text_orig)) \ BeforeClose(contents_text_orig))

\* C5: rewriting is idempotent in each mode: run again on the file it
\* left, _fix_src changes nothing and main writes no file.
C5_Idempotent ==
    /\ (run >= 2 /\ pc = "finish" /\ ~disk[fidx].stdin)
       => contents_text = contents_text_orig
    /\ (run >= 2 /\ pc = "done") => rewritten = {}

\* C6: in Remove mode the output is the input with some trailing commas
\* deleted: no whitespace, indentation or line break is changed, added or
\* removed.
C6_RemoveOnlyDeletesCommas ==
    RemoveDone =>
        \E D \in SUBSET {TrailingComma(o) + 1 : o \in {r \in OrigRegions : TrailingComma(r) # -1}} :
            contents_text = Restrict(contents_text_orig, (1..Len(contents_text_orig)) \ D)

\* C7: a file whose line breaks are all \r\n keeps \r\n at every line
\* break of what fix_file writes back, in both modes.
C7_LineEndingsKept ==
    (pc = "finish" /\ \A p \in 1..Len(contents_text_orig) : contents_text_orig[p] # "\n")
    => \A p \in 1..Len(contents_text) : contents_text[p] # "\n"

\* C8: when main returns, without --exit-zero-even-if-changed the exit code
\* is non-zero exactly when some file's text changed or some file did not
\* decode; with it, no change makes it non-zero; a file is written back
\* exactly when its text changed, with the new text; a file that does not
\* decode is left as it was, and every file is processed.
C8_ExitCodeAndWrites ==
    pc = "done" =>
        LET changed(f) == outs[f].decoded /\ outs[f].out # outs[f].orig
            files == 1..Len(disk)
        IN  /\ Len(outs) = Len(disk)
            /\ ~exit_zero =>
                  (ret # 0 <=> \E f \in files : changed(f) \/ ~disk0[f].decodes)
            /\ exit_zero => (ret # 0 => \E f \in files : ~disk0[f].decodes)
            /\ \A f \in files :
                  /\ outs[f].decoded = disk0[f].decodes
                  /\ outs[f].decoded => outs[f].orig = disk0[f].text
                  /\ ~disk0[f].stdin => (f \in rewritten <=> changed(f))
                  /\ disk0[f].stdin => f \notin rewritten
                  /\ disk[f] = IF f \in rewritten
                               THEN [disk0[f] EXCEPT !.text = outs[f].out]
                               ELSE disk0[f]

\* A run of main has returned in which the first file did not decode and
\* the second was written back.
C8_Witness ==
    /\ pc = "done"
    /\ Len(disk) >= 2
    /\ ~disk[1].decodes
    /\ 2 \in rewritten
    /\ ret = 1

\* C9: in Remove mode a one-element tuple (1,) whose opening parenthesis
\* stands after =, an augmented assignment, return, a comma or an opening
\* bracket ( [ { keeps its comma; after import and in a definition's
\* parameter list the region is not taken for a tuple.
C9_TupleContext ==
    RemoveDone =>
        \A o \in OrigRegions :
            OneTokenTuple(o) =>
                /\ Before(o) \in {"=", "return", ",", "(", "[", "{"} \cup AugmentedAssignments
                   => Survives(TrailingComma(o))
                /\ (\/ Before(o) = "import"
                    \/ \E k \in 0..(o - 1) : At(OrigTokens, k).src = "def")
                   => At(OrigTokens, o).offset \notin kept

\* C10: in the Remove pass the closing-bracket index _fix_unhugged_brace is
\* given is the index of the region's closing bracket in the token list as
\* it then is, also after a deletion in the same iteration; and a deletion
\* is at an index greater than the cursor.
C10_IndicesNotStale ==
    /\ last.brace # -1 => last.brace = last.closes
    /\ last.deleted # -1 => last.deleted > last.i

====
